---- MODULE Spec2Model ----
(***************************************************************************)
(* Safar Travel assistant: the orchestrator loop of AgentManager           *)
(* (src/manager.py), the tool set and the process-wide ticket store        *)
(* (src/tools.py) and the chat front-end handlers (src/chainlit_app.py).   *)
(***************************************************************************)
EXTENDS Integers, Sequences, FiniteSets, TLC

(***************************************************************************)
(* Bounds of the model.                                                    *)
(***************************************************************************)
\* A new turn is started only while the histories of all sessions together
\* hold at most this many messages.
MaxStartLen == 4

\* range(5) of process_message
MaxSteps == 5

\* A direct call is made only if the store then holds at most this many
\* tickets.
MaxTickets == 1

(***************************************************************************)
(* JSON values of an argument payload, as json.loads yields them.          *)
(***************************************************************************)
JStr(s) == [t |-> "str", v |-> s]
JNum(s) == [t |-> "num", v |-> s]
JNull == [t |-> "null", v |-> ""]
\* the key is not in the payload
Absent == [t |-> "absent", v |-> ""]

\* Python truthiness of a payload value (None, "" and 0 are falsy)
Truthy(x) ==
    \/ x.t = "str" /\ x.v # ""
    \/ x.t = "num" /\ x.v # "0"

Keys ==
    {"origin_city", "destination_city", "travel_date", "passenger_name",
     "national_id", "ticket_id", "query", "user_preferences", "seat"}

BookParams ==
    {"origin_city", "destination_city", "travel_date", "passenger_name",
     "national_id"}

\* the registered callables and the parameters of each (none has a default)
ToolNames ==
    {"book_ticket", "cancel_ticket", "get_ticket_info", "lookup_policy",
     "search_destinations"}

Params(name) ==
    CASE name = "book_ticket" -> BookParams
      [] name = "cancel_ticket" -> {"ticket_id"}
      [] name = "get_ticket_info" -> {"ticket_id"}
      [] name = "lookup_policy" -> {"query"}
      [] name = "search_destinations" -> {"user_preferences"}
      [] OTHER -> {}

\* a payload object: every key of Keys, Absent when the payload lacks it
Obj(pairs) == [k \in Keys |-> IF k \in DOMAIN pairs THEN pairs[k] ELSE Absent]

Present(args) == {k \in Keys : args[k].t # "absent"}

(***************************************************************************)
(* Tickets and the ticket store.                                           *)
(***************************************************************************)
NoDate == "none"

\* str.upper of the first two characters, str.lower of the whole name
Upper2(s) ==
    CASE s = "Tehran" -> "TE"
      [] s = "Kish" -> "KI"
      [] s = "Shiraz" -> "SH"
      [] OTHER -> s

Lower(s) ==
    CASE s = "Tehran" -> "tehran"
      [] s = "Kish" -> "kish"
      [] s = "Shiraz" -> "shiraz"
      [] OTHER -> s

\* uuid.uuid4().hex[:6].upper(): what the random source may yield
HexSuffixes == {"A1B2C3", "D4E5F6"}

\* datetime.now() formatted: the readings of the clock, in order
Dates == <<"2026-01-01 10:00:00", "2026-01-02 11:30:00">>

generate_ticket_id(origin, destination, hex) ==
    "SF-" \o Upper2(origin) \o Upper2(destination) \o "-" \o hex

travel_times == <<"08:00", "14:30", "20:00">>

BasePrice == 1500000

NoTicket ==
    [ticket_id |-> "", origin |-> "", destination |-> "", travel_date |-> "",
     departure_time |-> "", passenger_name |-> "", national_id |-> "",
     price_irr |-> 0, status |-> "", booking_date |-> NoDate,
     cancellation_date |-> NoDate]

(***************************************************************************)
(* refund_amount = int(price * 0.70): the product is an IEEE-754 double.   *)
(* Numbers are sequences of bits, least significant first.                 *)
(***************************************************************************)
\* the 53-bit significand of the double 0.70 = 0x16666666666666 / 2^53
SigBits == 53

Sig070 == [i \in 1..SigBits |->
             IF i = SigBits THEN 1 ELSE IF (i - 1) % 4 \in {1, 2} THEN 1 ELSE 0]

RECURSIVE FromBits(_)
FromBits(b) == IF b = <<>> THEN 0 ELSE Head(b) + 2 * FromBits(Tail(b))

\* a number is multiplied limb by limb, a limb being LimbBits bits; a value
\* that is used more than once is bound by a quantifier, so that it is
\* computed once
LimbBits == 8

Limbs(bits) ==
    [k \in 1..((Len(bits) + LimbBits - 1) \div LimbBits) |->
        FromBits(SubSeq(bits, LimbBits * (k - 1) + 1,
                        IF LimbBits * k < Len(bits) THEN LimbBits * k
                        ELSE Len(bits)))]

\* limbs * p + carry, in limbs
RECURSIVE MulLimbs(_, _, _)
MulLimbs(limbs, p, carry) ==
    IF limbs = <<>> /\ carry = 0 THEN <<>>
    ELSE LET low == IF limbs = <<>> THEN carry ELSE Head(limbs) * p + carry
             rest == IF limbs = <<>> THEN <<>> ELSE Tail(limbs)
         IN  CHOOSE r \in {<<v % 2 ^ LimbBits>>
                                \o MulLimbs(t, p, v \div 2 ^ LimbBits) :
                            v \in {low}, t \in {rest}} : TRUE

\* the bits of a number given by its limbs, without leading zeros
LimbsToBits(limbs) ==
    LET b == [i \in 1..(LimbBits * Len(limbs)) |->
                (limbs[((i - 1) \div LimbBits) + 1]
                    \div 2 ^ ((i - 1) % LimbBits)) % 2]
    IN  CHOOSE r \in {SubSeq(b, 1, Cardinality({i \in 1..Len(b) :
                                                  \E j \in ones : i <= j})) :
                        ones \in {{i \in 1..Len(b) : b[i] = 1}}} : TRUE

\* bits * p + carry for a small integer p
MulSmall(bits, p, carry) ==
    CHOOSE r \in {LimbsToBits(m) : m \in {MulLimbs(Limbs(bits), p, carry)}} :
        TRUE

RECURSIVE Incr(_)
Incr(bits) ==
    IF bits = <<>> THEN <<1>>
    ELSE IF Head(bits) = 0 THEN <<1>> \o Tail(bits)
    ELSE <<0>> \o Incr(Tail(bits))

\* round to nearest, ties to even, dropping the e low bits of y
RoundDrop(y, e) ==
    LET q == SubSeq(y, e + 1, Len(y))
        rem == SubSeq(y, 1, e)
        half == e >= 1 /\ rem[e] = 1
        above == half /\ \E i \in 1..(e - 1) : rem[i] = 1
        up == above \/ (half /\ q[1] = 1)
    IN  IF up THEN Incr(q) ELSE q

\* the integer part of y / 2^SigBits rounded to SigBits significant bits
RoundTrunc(y) ==
    LET e == IF Len(y) > SigBits THEN Len(y) - SigBits ELSE 0
    IN  CHOOSE r \in {FromBits(SubSeq(q, SigBits - e + 1, Len(q))) :
                        q \in {RoundDrop(y, e)}} : TRUE

\* int(p * 0.70) for an integer-valued p >= 0
MulTrunc070(p) ==
    CHOOSE r \in {RoundTrunc(y) : y \in {MulSmall(Sig070, p, 0)}} : TRUE

\* refund_amount = int(ticket["price_irr"] * refund_percentage)
refund_of_penalty(price) == price - MulTrunc070(price)

refund_of(price) == MulTrunc070(price)

(***************************************************************************)
(* Tool results.  A result is a mapping with a status and a message; the   *)
(* message is kept as the name of the text the code builds.                *)
(***************************************************************************)
Result(status, message) ==
    [status |-> status, message |-> message, details |-> NoTicket,
     ticket_id |-> "", refund_amount_irr |-> 0]

\* a tool returned `result`, leaving the store `db`
Returned(result, db) == [raised |-> FALSE, result |-> result, db |-> db]

\* the call raised (TypeError of the argument binding): nothing is returned
Raised(db) == [raised |-> TRUE, result |-> Result("", "TypeError"), db |-> db]

\* TICKET_DB[ticket_id] = ticket_data
Store(db, ticket_id, ticket_data) ==
    [k \in DOMAIN db \cup {ticket_id} |->
        IF k = ticket_id THEN ticket_data ELSE db[k]]

\* TICKET_DB.get(ticket_id) found something
Found(db, v) == v.t = "str" /\ v.v \in DOMAIN db

book_ticket(args, db, hex, now) ==
    LET origin_city == args["origin_city"]
        destination_city == args["destination_city"]
    IN  IF ~ \A k \in BookParams : Truthy(args[k])
        THEN Returned(Result("error", "missing_booking_information"), db)
        ELSE IF destination_city.t # "str" \/ origin_city.t # "str"
        \* .lower() or [:2] of a number raises inside the try block
        THEN Returned(Result("error", "internal_error"), db)
        ELSE
            LET base_price ==
                    IF Lower(destination_city.v) \in {"kish", "qeshm"}
                    THEN (BasePrice * 3) \div 2
                    ELSE BasePrice
                ticket_id ==
                    generate_ticket_id(origin_city.v, destination_city.v, hex)
                ticket_data ==
                    [ticket_id |-> ticket_id,
                     origin |-> origin_city.v,
                     destination |-> destination_city.v,
                     travel_date |-> args["travel_date"].v,
                     departure_time |->
                        travel_times[(Cardinality(DOMAIN db) % 3) + 1],
                     passenger_name |-> args["passenger_name"].v,
                     national_id |-> args["national_id"].v,
                     price_irr |-> base_price,
                     status |-> "CONFIRMED",
                     booking_date |-> now,
                     cancellation_date |-> NoDate]
            IN  Returned([Result("success", "booked")
                            EXCEPT !.details = ticket_data],
                         Store(db, ticket_id, ticket_data))

\* cancel_ticket without the test for a ticket that is already cancelled
cancel_ticket_again(args, db, now) ==
    LET ticket_id == args["ticket_id"]
    IN  IF ~ Found(db, ticket_id)
        THEN Returned(Result("error", "not_found"), db)
        ELSE
            LET ticket == db[ticket_id.v]
                refund_amount == refund_of(ticket.price_irr)
                cancelled ==
                    [ticket EXCEPT !.status = "CANCELLED",
                                   !.cancellation_date = now]
            IN  Returned([Result("success", "cancelled")
                            EXCEPT !.ticket_id = ticket_id.v,
                                   !.refund_amount_irr = refund_amount],
                         Store(db, ticket_id.v, cancelled))

cancel_ticket(args, db, now) ==
    LET ticket_id == args["ticket_id"]
    IN  IF ~ Found(db, ticket_id)
        THEN Returned(Result("error", "not_found"), db)
        ELSE IF db[ticket_id.v].status = "CANCELLED"
        THEN Returned(Result("info", "already_cancelled"), db)
        ELSE
            LET ticket == db[ticket_id.v]
                refund_amount == refund_of(ticket.price_irr)
                cancelled ==
                    [ticket EXCEPT !.status = "CANCELLED",
                                   !.cancellation_date = now]
            IN  Returned([Result("success", "cancelled")
                            EXCEPT !.ticket_id = ticket_id.v,
                                   !.refund_amount_irr = refund_amount],
                         Store(db, ticket_id.v, cancelled))

get_ticket_info(args, db) ==
    LET ticket_id == args["ticket_id"]
    IN  IF ~ Found(db, ticket_id)
        THEN Returned(Result("error", "not_found"), db)
        ELSE Returned([Result("success", "info_retrieved")
                         EXCEPT !.details = db[ticket_id.v]],
                      db)

\* lookup_policy that queries the collection without looking at its size
lookup_policy_unchecked(count, hit, db) ==
    IF hit
    THEN Returned(Result("success", "policy_retrieved"), db)
    ELSE Returned(Result("info", "no_direct_match"), db)

\* count: documents in the collection; hit: the query returned a document
lookup_policy(count, hit, db) ==
    IF count = 0
    THEN Returned(Result("error", "policy_unavailable"), db)
    ELSE IF hit
    THEN Returned(Result("success", "policy_retrieved"), db)
    ELSE Returned(Result("info", "no_direct_match"), db)

\* llm_ok: the nested completion call returned parseable JSON
search_destinations(llm_ok, db) ==
    IF llm_ok
    THEN Returned(Result("success", "destinations_generated"), db)
    ELSE Returned(Result("error", "destinations_failed"), db)

(***************************************************************************)
(* Tool dispatch.  A tool call is [id, name, arguments]; arguments stands  *)
(* for the serialized text: kind "bad" does not parse, "nonobj" parses to  *)
(* something that is no object, "obj" parses to the object args.           *)
(* env holds what the call draws from outside: hex, hit, llm_ok; now is    *)
(* the reading of the clock.                                               *)
(***************************************************************************)
\* _execute_tool_call with json.loads outside the try block: a payload that
\* does not parse raises
execute_tool_call_undecoded(tool_call, db, count, now, env) ==
    LET function_name == tool_call.name
        arguments == tool_call.arguments
    IN  IF function_name \notin ToolNames
        THEN Returned(Result("error", "unknown_function"), db)
        ELSE IF arguments.kind # "obj"
        THEN Raised(db)
        ELSE IF Present(arguments.args) # Params(function_name)
        THEN Raised(db)
        ELSE CASE function_name = "book_ticket" ->
                    book_ticket(arguments.args, db, env.hex, now)
               [] function_name = "cancel_ticket" ->
                    cancel_ticket(arguments.args, db, now)
               [] function_name = "get_ticket_info" ->
                    get_ticket_info(arguments.args, db)
               [] function_name = "lookup_policy" ->
                    lookup_policy(count, env.hit, db)
               [] OTHER -> search_destinations(env.llm_ok, db)

execute_tool_call(tool_call, db, count, now, env) ==
    LET function_name == tool_call.name
        arguments == tool_call.arguments
    IN  IF function_name \notin ToolNames
        THEN Returned(Result("error", "unknown_function"), db)
        ELSE IF arguments.kind = "bad"
        THEN Returned(Result("error", "json_decode_error"), db)
        ELSE IF arguments.kind # "obj"
        THEN Raised(db)
        ELSE IF Present(arguments.args) # Params(function_name)
        THEN Raised(db)
        ELSE CASE function_name = "book_ticket" ->
                    book_ticket(arguments.args, db, env.hex, now)
               [] function_name = "cancel_ticket" ->
                    cancel_ticket(arguments.args, db, now)
               [] function_name = "get_ticket_info" ->
                    get_ticket_info(arguments.args, db)
               [] function_name = "lookup_policy" ->
                    lookup_policy(count, env.hit, db)
               [] OTHER -> search_destinations(env.llm_ok, db)

\* what a call of the tool `name` may draw: only the parts the tool reads vary
Envs(name) ==
    [hex : IF name = "book_ticket" THEN HexSuffixes ELSE {"A1B2C3"},
     hit : IF name = "lookup_policy" THEN BOOLEAN ELSE {TRUE},
     llm_ok : IF name = "search_destinations" THEN BOOLEAN ELSE {TRUE}]

(***************************************************************************)
(* The requests the Completion Service (or a direct caller) may make.      *)
(***************************************************************************)
Call(id, name, kind, args) ==
    [id |-> id, name |-> name, arguments |-> [kind |-> kind, args |-> args]]

BookArgs(origin, destination, name) ==
    Obj([origin_city |-> JStr(origin), destination_city |-> JStr(destination),
         travel_date |-> JStr("1403/05/10"), passenger_name |-> JStr(name),
         national_id |-> JStr("0012345678")])

IdArgs(ticket_id) == Obj([ticket_id |-> JStr(ticket_id)])

KishAli == BookArgs("Tehran", "Kish", "Ali")

\* complete bookings: a premium and a base-price destination, two passengers
ValidBookArgs ==
    {KishAli, BookArgs("Tehran", "Kish", "Sara"),
     BookArgs("Tehran", "Shiraz", "Ali")}

\* a required field empty, null or left out of the payload
EmptyFieldArgs == {[KishAli EXCEPT ![k] = JStr("")] : k \in BookParams}

NullFieldArgs == {[KishAli EXCEPT !["national_id"] = JNull]}

MissingFieldArgs == {[KishAli EXCEPT ![k] = Absent] : k \in BookParams}

\* a key no parameter of the tool has
ExtraKeyArgs(args) == [args EXCEPT !["seat"] = JStr("12A")]

UnknownId == "SF-TEKI-000000"

TicketIds ==
    {generate_ticket_id("Tehran", d, h) :
        d \in {"Kish", "Shiraz"}, h \in HexSuffixes}

ToolRequests ==
    {Call("call_0", "book_ticket", "obj", a) :
        a \in ValidBookArgs \cup EmptyFieldArgs \cup NullFieldArgs
              \cup MissingFieldArgs
              \cup {ExtraKeyArgs(KishAli),
                    [KishAli EXCEPT !["origin_city"] = JNum("5")]}}
    \cup {Call("call_0", n, "obj", IdArgs(t)) :
            n \in {"cancel_ticket", "get_ticket_info"}, t \in TicketIds}
    \cup {Call("call_0", n, "obj", a) :
            n \in {"cancel_ticket", "get_ticket_info"},
            a \in {Obj(<<>>), ExtraKeyArgs(IdArgs(UnknownId))}}
    \cup {Call("call_0", "lookup_policy", "obj", a) :
            a \in {Obj([query |-> JStr("refund rules")]), Obj(<<>>)}}
    \cup {Call("call_0", "search_destinations", "obj",
               Obj([user_preferences |-> JStr("warm and historical")])),
          Call("call_0", "delete_ticket", "obj", IdArgs(UnknownId)),
          Call("call_0", "cancel_ticket", "bad", Obj(<<>>)),
          Call("call_0", "cancel_ticket", "nonobj", Obj(<<>>))}

(***************************************************************************)
(* State.                                                                  *)
(***************************************************************************)
Sessions == {"s1", "s2"}

\* the chats that are opened under Spec
Chats == {"s1"}

VARIABLES
    TICKET_DB,          \* the process-wide ticket store: id -> ticket
    policy_file,        \* the policy file: "missing", "empty" or "loaded"
    collection_count,   \* documents in the policy collection
    configured,         \* AVALAI_API_KEY and AVALAI_BASE_URL are both set
    chat,               \* per session: "closed", "no_agent" or "agent"
    history,            \* per session: AgentManager.history
    shown,              \* per session: the last message sent to the user
    pc,                 \* "idle", or where process_message stands
    cur,                \* the session whose turn is running
    step,               \* iterations of the loop completed in this turn
    tool_calls,         \* model_response.tool_calls of the running round
    idx,                \* tool calls of the round executed so far
    tool_outputs,       \* the local list tool_outputs
    ret,                \* how the last process_message call ended
    hist0,              \* history of cur when the turn began
    n_service,          \* Completion Service calls made in this turn
    response,           \* what the last of them answered
    round_base,         \* length of the history when the round began
    executed,           \* ids of the tool calls dispatched in the round
    last_call,          \* the last tool call dispatched
    last_out,           \* what it returned or raised
    db_before,          \* the ticket store before it
    issued,             \* id -> the payload of the first booking it was
                        \* returned for
    bookings,           \* successful bookings so far, modulo the number of
                        \* departure slots
    clock               \* the clock: datetime.now() is Dates[clock]

tools_vars == <<TICKET_DB, last_call, last_out, db_before, issued, bookings>>

rag_vars == <<policy_file, collection_count>>

front_vars == <<configured, chat, shown>>

turn_vars ==
    <<pc, cur, step, tool_calls, idx, tool_outputs, ret, hist0, n_service,
      response, round_base, executed>>

vars == <<tools_vars, rag_vars, front_vars, history, turn_vars, clock>>

(***************************************************************************)
(* Messages of a history.                                                  *)
(***************************************************************************)
Msg(role, content) ==
    [role |-> role, content |-> content, tool_calls |-> <<>>,
     tool_call_id |-> "", name |-> "", result |-> Result("", "")]

SystemMsg == Msg("system", "system prompt")

\* model_response.model_dump() of a response that requests tool calls
ToolCallRecord(calls) == [Msg("assistant", "") EXCEPT !.tool_calls = calls]

\* the tool message built from one call and its result
ToolMsg(tool_call, tool_result) ==
    [Msg("tool", "") EXCEPT !.tool_call_id = tool_call.id,
                            !.name = tool_call.name,
                            !.result = tool_result]

NoCall == Call("", "", "bad", Obj(<<>>))

NoOut == Returned(Result("", ""), <<>>)

NoRet == [kind |-> "none", text |-> ""]

\* what a call of the Completion Service gave: kind "error" when it raised,
\* else "message" with a content (empty for None) and a list of tool calls
\* (empty for None)
Response(kind, content, calls) ==
    [kind |-> kind, content |-> content, tool_calls |-> calls]

NoResponse == Response("none", "", <<>>)

(***************************************************************************)
(* The tool layer on its own: _execute_tool_call invoked directly on an    *)
(* agent that has been constructed.                                        *)
(***************************************************************************)
\* RAGTool._load_data
load_data(count, file) ==
    IF count > 0 THEN count ELSE IF file = "loaded" THEN 2 ELSE 0

ToolInit ==
    /\ TICKET_DB = <<>>
    /\ policy_file = "loaded"
    /\ collection_count = load_data(0, policy_file)
    /\ configured = TRUE
    /\ chat = [s \in Sessions |-> IF s = "s1" THEN "agent" ELSE "closed"]
    /\ history = [s \in Sessions |-> IF s = "s1" THEN <<SystemMsg>> ELSE <<>>]
    /\ shown = [s \in Sessions |-> IF s = "s1" THEN "welcome" ELSE ""]
    /\ pc = "idle"
    /\ cur = "s1"
    /\ step = 0
    /\ tool_calls = <<>>
    /\ idx = 0
    /\ tool_outputs = <<>>
    /\ ret = NoRet
    /\ hist0 = <<>>
    /\ n_service = 0
    /\ response = NoResponse
    /\ round_base = 0
    /\ executed = <<>>
    /\ last_call = NoCall
    /\ last_out = NoOut
    /\ db_before = <<>>
    /\ issued = <<>>
    /\ bookings = 0
    /\ clock = 1

\* one call of _execute_tool_call
Dispatch(tool_call, env) ==
    \E out \in {execute_tool_call(tool_call, TICKET_DB, collection_count,
                                  Dates[clock], env)} :
        /\ last_call' = tool_call
        /\ last_out' = [out EXCEPT !.db = <<>>]
        /\ db_before' = TICKET_DB
        /\ TICKET_DB' = out.db
        /\ issued' =
            IF out.result.message = "booked"
               /\ out.result.details.ticket_id \notin DOMAIN issued
            THEN Store(issued, out.result.details.ticket_id,
                       tool_call.arguments.args)
            ELSE issued
        /\ bookings' =
            IF out.result.message = "booked"
            THEN (bookings + 1) % Len(travel_times)
            ELSE bookings

\* a direct caller invokes _execute_tool_call ...
DirectCall ==
    /\ pc = "idle"
    /\ chat["s1"] = "agent"
    /\ \E tool_call \in ToolRequests :
        \E env \in Envs(tool_call.name) :
            /\ Dispatch(tool_call, env)
            /\ Cardinality(DOMAIN TICKET_DB') <= MaxTickets
    /\ pc' = "called"
    /\ UNCHANGED <<rag_vars, front_vars, history, cur, step, tool_calls, idx,
                   tool_outputs, ret, hist0, n_service, response, round_base,
                   executed, clock>>

\* ... and is done with what it returned or raised
DirectReturn ==
    /\ pc = "called"
    /\ pc' = "idle"
    /\ last_call' = NoCall
    /\ last_out' = NoOut
    /\ db_before' = <<>>
    /\ UNCHANGED <<TICKET_DB, issued, bookings, rag_vars, front_vars, history,
                   cur, step, tool_calls, idx, tool_outputs, ret, hist0,
                   n_service, response, round_base, executed, clock>>

\* time passes between two operations
Tick ==
    /\ pc = "idle"
    /\ clock < Len(Dates)
    /\ clock' = clock + 1
    /\ UNCHANGED <<tools_vars, rag_vars, front_vars, history, turn_vars>>

ToolNext == DirectCall \/ DirectReturn \/ Tick

ToolSpec == ToolInit /\ [][ToolNext]_vars

(***************************************************************************)
(* The chat front-end and the orchestrator loop.                           *)
(***************************************************************************)
UserTexts == {"I want to book a flight to Kish"}

Texts == {"Your ticket is booked.", "Which city do you leave from?"}

ApologyText == "An API error occurred"

FallbackText == "I could not understand your request"

MaxStepsText == "Sorry, I reached the maximum number of internal steps"

KishId == generate_ticket_id("Tehran", "Kish", "A1B2C3")

\* the lists of tool calls a response may carry
Batches ==
    {<<Call("call_1", "book_ticket", "obj", KishAli)>>,
     <<Call("call_1", "cancel_ticket", "obj", IdArgs(KishId)),
       Call("call_2", "get_ticket_info", "obj", IdArgs(KishId))>>,
     <<Call("call_1", "lookup_policy", "obj",
            Obj([query |-> JStr("refund rules")])),
       Call("call_2", "book_ticket", "obj",
            [KishAli EXCEPT !["national_id"] = Absent])>>}

Init ==
    /\ TICKET_DB = <<>>
    /\ policy_file \in {"missing", "empty", "loaded"}
    /\ collection_count = 0
    /\ configured \in BOOLEAN
    /\ chat = [s \in Sessions |-> "closed"]
    /\ history = [s \in Sessions |-> <<>>]
    /\ shown = [s \in Sessions |-> ""]
    /\ pc = "idle"
    /\ cur = "s1"
    /\ step = 0
    /\ tool_calls = <<>>
    /\ idx = 0
    /\ tool_outputs = <<>>
    /\ ret = NoRet
    /\ hist0 = <<>>
    /\ n_service = 0
    /\ response = NoResponse
    /\ round_base = 0
    /\ executed = <<>>
    /\ last_call = NoCall
    /\ last_out = NoOut
    /\ db_before = <<>>
    /\ issued = <<>>
    /\ bookings = 0
    /\ clock = 1

RECURSIVE TotalLen(_)
TotalLen(S) ==
    IF S = {} THEN 0
    ELSE LET s == CHOOSE x \in S : TRUE
         IN  Len(history[s]) + TotalLen(S \ {s})

\* on_chat_start that builds the agent although the configuration is missing
ChatStartAnyway(s) ==
    /\ pc = "idle"
    /\ chat[s] = "closed"
    /\ ~ configured
    /\ collection_count' = load_data(collection_count, policy_file)
    /\ history' = [history EXCEPT ![s] = <<SystemMsg>>]
    /\ chat' = [chat EXCEPT ![s] = "agent"]
    /\ shown' = [shown EXCEPT ![s] = "welcome"]
    /\ UNCHANGED <<tools_vars, policy_file, configured, turn_vars, clock>>

\* on_chat_start without the API key or the base URL
ChatStartUnconfigured(s) ==
    /\ pc = "idle"
    /\ chat[s] = "closed"
    /\ ~ configured
    /\ chat' = [chat EXCEPT ![s] = "no_agent"]
    /\ shown' = [shown EXCEPT ![s] = "config_error"]
    /\ UNCHANGED <<tools_vars, rag_vars, configured, history, turn_vars,
                   clock>>

\* on_chat_start: AgentManager.__init__, which loads the policy data
ChatStart(s) ==
    /\ pc = "idle"
    /\ chat[s] = "closed"
    /\ configured
    /\ collection_count' = load_data(collection_count, policy_file)
    /\ history' = [history EXCEPT ![s] = <<SystemMsg>>]
    /\ chat' = [chat EXCEPT ![s] = "agent"]
    /\ shown' = [shown EXCEPT ![s] = "welcome"]
    /\ UNCHANGED <<tools_vars, policy_file, configured, turn_vars, clock>>

\* on_message of a chat that holds no agent
MessageWithoutAgent(s) ==
    /\ pc = "idle"
    /\ chat[s] = "no_agent"
    /\ shown' = [shown EXCEPT ![s] = "not_initialized"]
    /\ UNCHANGED <<tools_vars, rag_vars, configured, chat, history,
                   turn_vars, clock>>

\* StartTurn with one history list shared by all agents
StartTurnShared(s, user_message) ==
    /\ pc = "idle"
    /\ chat[s] = "agent"
    /\ TotalLen(Sessions) <= MaxStartLen
    /\ history' = [t \in Sessions |->
                    IF chat[t] = "agent"
                    THEN Append(history[t], Msg("user", user_message))
                    ELSE history[t]]
    /\ shown' = [shown EXCEPT ![s] = ""]
    /\ pc' = "llm"
    /\ cur' = s
    /\ step' = 0
    /\ tool_calls' = <<>>
    /\ idx' = 0
    /\ tool_outputs' = <<>>
    /\ ret' = NoRet
    /\ hist0' = history[s]
    /\ n_service' = 0
    /\ response' = NoResponse
    /\ round_base' = 0
    /\ executed' = <<>>
    /\ last_call' = NoCall
    /\ last_out' = NoOut
    /\ db_before' = <<>>
    /\ UNCHANGED <<TICKET_DB, issued, bookings, rag_vars, configured, chat,
                   clock>>

\* on_message: process_message appends the user message and enters the loop
StartTurn(s, user_message) ==
    /\ pc = "idle"
    /\ chat[s] = "agent"
    /\ TotalLen(Sessions) <= MaxStartLen
    /\ history' = [history EXCEPT ![s] = Append(@, Msg("user", user_message))]
    /\ shown' = [shown EXCEPT ![s] = ""]
    /\ pc' = "llm"
    /\ cur' = s
    /\ step' = 0
    /\ tool_calls' = <<>>
    /\ idx' = 0
    /\ tool_outputs' = <<>>
    /\ ret' = NoRet
    /\ hist0' = history[s]
    /\ n_service' = 0
    /\ response' = NoResponse
    /\ round_base' = 0
    /\ executed' = <<>>
    /\ last_call' = NoCall
    /\ last_out' = NoOut
    /\ db_before' = <<>>
    /\ UNCHANGED <<TICKET_DB, issued, bookings, rag_vars, configured, chat,
                   clock>>

\* a pop that takes the first entry instead of the last
PopFirst(h) == Tail(h)

\* self.history.pop()
Pop(h) == SubSeq(h, 1, Len(h) - 1)

\* process_message returns `text`, which on_message shows
Return(text) ==
    /\ ret' = [kind |-> "returned", text |-> text]
    /\ shown' = [shown EXCEPT ![cur] = text]
    /\ pc' = "idle"

\* a failed service call after which the loop goes on to its next iteration
ServiceFailsRetry ==
    /\ pc = "llm"
    /\ step < MaxSteps
    /\ n_service' = n_service + 1
    /\ response' = Response("error", "", <<>>)
    /\ step' = step + 1
    /\ UNCHANGED <<tools_vars, rag_vars, front_vars, history, pc, cur,
                   tool_calls, idx, tool_outputs, ret, hist0, round_base,
                   executed, clock>>

\* a failed service call whose rollback also takes back the last tool call
ServiceFailsUndo ==
    /\ pc = "llm"
    /\ step < MaxSteps
    /\ n_service' = n_service + 1
    /\ response' = Response("error", "", <<>>)
    /\ history' = [history EXCEPT ![cur] = Pop(@)]
    /\ TICKET_DB' = IF last_call = NoCall THEN TICKET_DB ELSE db_before
    /\ Return(ApologyText)
    /\ UNCHANGED <<last_call, last_out, db_before, issued, bookings, rag_vars,
                   configured, chat, cur, step, tool_calls, idx, tool_outputs,
                   hist0, round_base, executed, clock>>

\* client.chat.completions.create raises
ServiceFails ==
    /\ pc = "llm"
    /\ step < MaxSteps
    /\ n_service' = n_service + 1
    /\ response' = Response("error", "", <<>>)
    /\ history' = [history EXCEPT ![cur] = Pop(@)]
    /\ Return(ApologyText)
    /\ UNCHANGED <<tools_vars, rag_vars, configured, chat, cur, step,
                   tool_calls, idx, tool_outputs, hist0, round_base, executed,
                   clock>>

\* ServiceText that returns the answer without recording it in the history
ServiceTextUnrecorded(content, calls) ==
    /\ pc = "llm"
    /\ step < MaxSteps
    /\ content # ""
    /\ n_service' = n_service + 1
    /\ response' = Response("message", content, calls)
    /\ Return(content)
    /\ UNCHANGED <<tools_vars, rag_vars, configured, chat, history, cur, step,
                   tool_calls, idx, tool_outputs, hist0, round_base, executed,
                   clock>>

\* ServiceText that records the answer and goes on to the next iteration
ServiceTextContinues(content, calls) ==
    /\ pc = "llm"
    /\ step < MaxSteps
    /\ content # ""
    /\ n_service' = n_service + 1
    /\ response' = Response("message", content, calls)
    /\ history' = [history EXCEPT ![cur] = Append(@, Msg("assistant", content))]
    /\ step' = step + 1
    /\ UNCHANGED <<tools_vars, rag_vars, front_vars, pc, cur, tool_calls, idx,
                   tool_outputs, ret, hist0, round_base, executed, clock>>

\* ServiceText that looks at the tool calls of the response before its content
ServiceTextToolsFirst(content, calls) ==
    /\ pc = "llm"
    /\ step < MaxSteps
    /\ content # ""
    /\ n_service' = n_service + 1
    /\ response' = Response("message", content, calls)
    /\ IF calls # <<>>
       THEN /\ round_base' = Len(history[cur])
            /\ history' = [history EXCEPT
                              ![cur] = Append(@, ToolCallRecord(calls))]
            /\ tool_calls' = calls
            /\ idx' = 0
            /\ tool_outputs' = <<>>
            /\ executed' = <<>>
            /\ pc' = "tools"
            /\ UNCHANGED <<ret, shown>>
       ELSE /\ history' = [history EXCEPT
                              ![cur] = Append(@, Msg("assistant", content))]
            /\ Return(content)
            /\ UNCHANGED <<tool_calls, idx, tool_outputs, round_base,
                           executed>>
    /\ UNCHANGED <<tools_vars, rag_vars, configured, chat, cur, step, hist0,
                   clock>>

\* the response has content: it is the final answer, tool calls or not
ServiceText(content, calls) ==
    /\ pc = "llm"
    /\ step < MaxSteps
    /\ content # ""
    /\ n_service' = n_service + 1
    /\ response' = Response("message", content, calls)
    /\ history' = [history EXCEPT ![cur] = Append(@, Msg("assistant", content))]
    /\ Return(content)
    /\ UNCHANGED <<tools_vars, rag_vars, configured, chat, cur, step,
                   tool_calls, idx, tool_outputs, hist0, round_base, executed,
                   clock>>

\* the response has no content and requests tool calls
ServiceToolCalls(calls) ==
    /\ pc = "llm"
    /\ step < MaxSteps
    /\ calls # <<>>
    /\ n_service' = n_service + 1
    /\ response' = Response("message", "", calls)
    /\ round_base' = Len(history[cur])
    /\ history' = [history EXCEPT ![cur] = Append(@, ToolCallRecord(calls))]
    /\ tool_calls' = calls
    /\ idx' = 0
    /\ tool_outputs' = <<>>
    /\ executed' = <<>>
    /\ pc' = "tools"
    /\ UNCHANGED <<tools_vars, rag_vars, front_vars, cur, step, ret, hist0,
                   clock>>

\* the response has neither content nor tool calls
ServiceEmpty ==
    /\ pc = "llm"
    /\ step < MaxSteps
    /\ n_service' = n_service + 1
    /\ response' = Response("message", "", <<>>)
    /\ history' = [history EXCEPT ![cur] = Pop(@)]
    /\ Return(FallbackText)
    /\ UNCHANGED <<tools_vars, rag_vars, configured, chat, cur, step,
                   tool_calls, idx, tool_outputs, hist0, round_base, executed,
                   clock>>

\* the next tool call of the round: it returns a result, kept in
\* tool_outputs, or raises, which ends process_message (on_message catches)
ExecTool ==
    /\ pc = "tools"
    /\ idx < Len(tool_calls)
    /\ \E env \in Envs(tool_calls[idx + 1].name),
          tool_call \in {tool_calls[idx + 1]} :
        \E out \in {execute_tool_call(tool_call, TICKET_DB, collection_count,
                                      Dates[clock], env)} :
            /\ Dispatch(tool_call, env)
            /\ executed' = Append(executed, tool_call.id)
            /\ IF out.raised
               THEN /\ ret' = [kind |-> "raised", text |-> ""]
                    /\ shown' = [shown EXCEPT ![cur] = "unexpected_error"]
                    /\ pc' = "idle"
                    /\ UNCHANGED <<idx, tool_outputs>>
               ELSE /\ tool_outputs' =
                        Append(tool_outputs, ToolMsg(tool_call, out.result))
                    /\ idx' = idx + 1
                    /\ UNCHANGED <<ret, shown, pc>>
    /\ UNCHANGED <<rag_vars, configured, chat, history, cur, step,
                   tool_calls, hist0, n_service, response, round_base, clock>>

\* messages_to_send.extend(tool_outputs); continue
EndRound ==
    /\ pc = "tools"
    /\ idx = Len(tool_calls)
    /\ history' = [history EXCEPT ![cur] = @ \o tool_outputs]
    /\ step' = step + 1
    /\ pc' = "llm"
    /\ UNCHANGED <<tools_vars, rag_vars, front_vars, cur, tool_calls, idx,
                   tool_outputs, ret, hist0, n_service, response, round_base,
                   executed, clock>>

\* the loop ran out of iterations
MaxStepsReached ==
    /\ pc = "llm"
    /\ step = MaxSteps
    /\ Return(MaxStepsText)
    /\ UNCHANGED <<tools_vars, rag_vars, configured, chat, history, cur,
                   step, tool_calls, idx, tool_outputs, hist0, n_service,
                   response, round_base, executed, clock>>

Next ==
    \/ \E s \in Chats : ChatStartUnconfigured(s)
    \/ \E s \in Chats : ChatStart(s)
    \/ \E s \in Chats : MessageWithoutAgent(s)
    \/ \E s \in Chats, user_message \in UserTexts :
            StartTurn(s, user_message)
    \/ ServiceFails
    \/ \E content \in Texts, calls \in Batches \cup {<<>>} :
            ServiceText(content, calls)
    \/ \E calls \in Batches : ServiceToolCalls(calls)
    \/ ServiceEmpty
    \/ ExecTool
    \/ EndRound
    \/ MaxStepsReached
    \/ Tick

Spec == Init /\ [][Next]_vars

\* a step of process_message: the code is sequential, so a turn that has
\* begun goes on as long as a step of it can be taken
TurnStep ==
    \/ ServiceFails
    \/ \E content \in Texts, calls \in Batches \cup {<<>>} :
            ServiceText(content, calls)
    \/ \E calls \in Batches : ServiceToolCalls(calls)
    \/ ServiceEmpty
    \/ ExecTool
    \/ EndRound
    \/ MaxStepsReached

LiveSpec == Init /\ [][Next]_vars /\ WF_vars(TurnStep)

(***************************************************************************)
(* Two chats in one process: each holds its own AgentManager, both use the *)
(* module-level TICKET_DB.  The configuration is set and the policy file   *)
(* is in place.                                                            *)
(***************************************************************************)
\* the lists of tool calls a response may carry when two chats are open
SharedBatches ==
    {<<Call("call_1", "book_ticket", "obj", KishAli)>>,
     <<Call("call_1", "cancel_ticket", "obj", IdArgs(KishId)),
       Call("call_2", "get_ticket_info", "obj", IdArgs(KishId))>>}

TwoInit == Init /\ configured /\ policy_file = "loaded"

TwoNext ==
    \/ \E s \in Sessions : ChatStart(s)
    \/ \E s \in Sessions, user_message \in UserTexts :
            StartTurn(s, user_message)
    \/ ServiceFails
    \/ \E content \in {"Your ticket is booked."} : ServiceText(content, <<>>)
    \/ \E calls \in SharedBatches : ServiceToolCalls(calls)
    \/ ServiceEmpty
    \/ ExecTool
    \/ EndRound
    \/ MaxStepsReached

TwoSpec == TwoInit /\ [][TwoNext]_vars

(***************************************************************************)
(* Properties of the tool layer, checked under ToolSpec.                   *)
(***************************************************************************)
\* the last call bound its arguments to the parameters of `name`
LastCallOf(name) ==
    /\ pc = "called"
    /\ last_call.name = name
    /\ last_call.arguments.kind = "obj"

LastArgs == last_call.arguments.args

\* round(price * 0.70), computed exactly: 7 * price / 10 to the nearest integer
RoundedRefund(price) == (7 * price + 5) \div 10

\* C7: a book_ticket request in which any of the five required fields is
\* empty or missing returns a result with status error and leaves the ticket
\* store as it was.
C7_BookIncompleteReturnsError ==
    (/\ LastCallOf("book_ticket")
     /\ Present(LastArgs) \subseteq BookParams
     /\ \E k \in BookParams : LastArgs[k] \in {JStr(""), JNull, Absent})
    => (/\ ~ last_out.raised
        /\ last_out.result.status = "error"
        /\ TICKET_DB = db_before)

\* C8: cancel_ticket on the id of a CONFIRMED ticket sets that ticket's
\* status to CANCELLED and returns status success with a refund of
\* round(price * 0.70), the price being the base price or the premium price.
C8_CancelConfirmedRefund ==
    (/\ LastCallOf("cancel_ticket")
     /\ Present(LastArgs) = {"ticket_id"}
     /\ Found(db_before, LastArgs["ticket_id"])
     /\ db_before[LastArgs["ticket_id"].v].status = "CONFIRMED")
    => LET id == LastArgs["ticket_id"].v
       IN  /\ ~ last_out.raised
           /\ last_out.result.status = "success"
           /\ db_before[id].price_irr \in {BasePrice, (BasePrice * 3) \div 2}
           /\ last_out.result.refund_amount_irr
                = RoundedRefund(db_before[id].price_irr)
           /\ TICKET_DB[id].status = "CANCELLED"

\* a premium-price ticket has just been cancelled
C8_Witness ==
    /\ LastCallOf("cancel_ticket")
    /\ Found(db_before, LastArgs["ticket_id"])
    /\ db_before[LastArgs["ticket_id"].v].status = "CONFIRMED"
    /\ db_before[LastArgs["ticket_id"].v].price_irr = (BasePrice * 3) \div 2
    /\ TICKET_DB[LastArgs["ticket_id"].v].status = "CANCELLED"
    /\ last_out.result.refund_amount_irr = 1575000

\* C9: every cancel_ticket on a ticket that is already CANCELLED returns
\* status info and leaves the whole ticket store, that ticket's status and
\* cancellation date included, unchanged.
C9_CancelCancelledIsInfo ==
    (/\ LastCallOf("cancel_ticket")
     /\ Present(LastArgs) = {"ticket_id"}
     /\ Found(db_before, LastArgs["ticket_id"])
     /\ db_before[LastArgs["ticket_id"].v].status = "CANCELLED")
    => (/\ ~ last_out.raised
        /\ last_out.result.status = "info"
        /\ TICKET_DB = db_before)

\* a cancelled ticket is cancelled again after the clock has moved on
C9_Witness ==
    /\ LastCallOf("cancel_ticket")
    /\ Found(db_before, LastArgs["ticket_id"])
    /\ db_before[LastArgs["ticket_id"].v].status = "CANCELLED"
    /\ db_before[LastArgs["ticket_id"].v].cancellation_date # Dates[clock]
    /\ last_out.result.status = "info"

\* the fields of a ticket that come from the booking request
RequestFields(ticket) ==
    [origin_city |-> ticket.origin, destination_city |-> ticket.destination,
     travel_date |-> ticket.travel_date,
     passenger_name |-> ticket.passenger_name,
     national_id |-> ticket.national_id]

\* C10: get_ticket_info on an id that was never booked returns status error
\* and changes nothing; on the id a successful book_ticket returned it
\* returns status success with the stored record, whose origin, destination,
\* travel date, passenger name and national id are those of that booking
\* request.
C10_InfoReturnsBookedRecord ==
    (/\ LastCallOf("get_ticket_info")
     /\ Present(LastArgs) = {"ticket_id"})
    => LET id == LastArgs["ticket_id"].v
       IN  /\ ~ last_out.raised
           /\ TICKET_DB = db_before
           /\ id \notin DOMAIN issued => last_out.result.status = "error"
           /\ id \in DOMAIN issued =>
                /\ last_out.result.status = "success"
                /\ last_out.result.details = TICKET_DB[id]
                /\ \A k \in BookParams :
                     RequestFields(last_out.result.details)[k]
                        = issued[id][k].v

(***************************************************************************)
(* Properties of the orchestrator loop, checked under Spec.                *)
(***************************************************************************)
\* process_message has ended, by a return or by an exception
TurnOver == pc = "idle" /\ ret.kind # "none"

\* the rounds the entries of h from index i on consist of, each an assistant
\* tool-call record followed by one tool message per call it requests, in
\* request order and with the call's identifier and tool name; -1 if the
\* entries are not such rounds
RECURSIVE Rounds(_, _)
Rounds(h, i) ==
    IF i > Len(h) THEN 0
    ELSE LET calls == h[i].tool_calls
             n == Len(calls)
         IN  IF /\ h[i].role = "assistant"
                /\ n >= 1
                /\ i + n <= Len(h)
                /\ \A j \in 1..n :
                     /\ h[i + j].role = "tool"
                     /\ h[i + j].tool_call_id = calls[j].id
                     /\ h[i + j].name = calls[j].name
             THEN LET r == Rounds(h, i + n + 1)
                  IN  IF r < 0 THEN -1 ELSE r + 1
             ELSE -1

\* the history of the running chat begins with the history the turn began
\* with
KeepsEarlier == SubSeq(history[cur], 1, Len(hist0)) = hist0

\* the user message of the turn stands right after them
HoldsUserMessage ==
    /\ Len(history[cur]) > Len(hist0)
    /\ history[cur][Len(hist0) + 1].role = "user"
    /\ history[cur][Len(hist0) + 1].content \in UserTexts

\* C1: when a Completion Service call of the turn fails, on the first
\* iteration or after tool-call rounds, the history after process_message
\* equals the history before it and the apology text is returned.
C1_FailureRestoresHistory ==
    (TurnOver /\ response.kind = "error")
    => (/\ ret = [kind |-> "returned", text |-> ApologyText]
        /\ history[cur] = hist0)

\* C2: when the first response of the turn has content, process_message
\* returns that content and the history is the earlier history followed by
\* the user message and the assistant message with that content; no tool was
\* executed.
C2_FirstTextAppendsTwo ==
    (/\ TurnOver
     /\ n_service = 1
     /\ response.kind = "message"
     /\ response.content # "")
    => (/\ ret = [kind |-> "returned", text |-> response.content]
        /\ Len(history[cur]) = Len(hist0) + 2
        /\ KeepsEarlier
        /\ HoldsUserMessage
        /\ history[cur][Len(hist0) + 2] = Msg("assistant", response.content)
        /\ last_call = NoCall
        /\ executed = <<>>)

\* a second turn of a chat is answered at once, by a response that also
\* requests tool calls
C2_Witness ==
    /\ TurnOver
    /\ n_service = 1
    /\ response.kind = "message"
    /\ response.content # ""
    /\ response.tool_calls # <<>>
    /\ Len(hist0) >= 3
    /\ Len(history[cur]) = Len(hist0) + 2

\* C3: when the responses of all 5 iterations of a turn request tool calls,
\* process_message returns the maximum-steps message after exactly 5 service
\* calls and the history holds the earlier entries, the user message and 5
\* rounds, each a tool-call record with its tool messages.
C3_FiveRoundsReturnMaxSteps ==
    (/\ TurnOver
     /\ n_service = MaxSteps
     /\ response.kind = "message"
     /\ response.content = ""
     /\ response.tool_calls # <<>>)
    => (/\ ret = [kind |-> "returned", text |-> MaxStepsText]
        /\ KeepsEarlier
        /\ HoldsUserMessage
        /\ Rounds(history[cur], Len(hist0) + 2) = MaxSteps)

\* C4: once a round that requests n tool calls is left, the n calls have
\* been dispatched in request order, each once, and the history ends with
\* the tool-call record followed by the n tool messages, in the same order
\* and tagged with the calls' identifiers and names.
C4_RoundRunsEveryCallInOrder ==
    (/\ pc \in {"llm", "idle"}
     /\ response.kind = "message"
     /\ response.content = ""
     /\ response.tool_calls # <<>>)
    => LET calls == response.tool_calls
           h == history[cur]
       IN  /\ executed = [i \in 1..Len(calls) |-> calls[i].id]
           /\ Len(h) = round_base + 1 + Len(calls)
           /\ h[round_base + 1] = ToolCallRecord(calls)
           /\ Rounds(h, round_base + 1) = 1

\* C5: when a response has neither content nor tool calls, at whichever
\* iteration, the clarification text is returned and the entry removed from
\* the history is the user message of the turn: the earlier entries and the
\* rounds of the turn remain.
C5_DegenerateRemovesUserMessage ==
    (/\ TurnOver
     /\ response.kind = "message"
     /\ response.content = ""
     /\ response.tool_calls = <<>>)
    => (/\ ret = [kind |-> "returned", text |-> FallbackText]
        /\ KeepsEarlier
        /\ Rounds(history[cur], Len(hist0) + 1) = step)

\* the failures of a tool call that are expected: the payload lacks a
\* parameter or holds a key that is none, a required booking field is empty,
\* the ticket id is unknown, the policy collection is empty
ExpectedFailure(tool_call, db, count) ==
    /\ tool_call.name \in ToolNames
    /\ tool_call.arguments.kind = "obj"
    /\ LET args == tool_call.arguments.args
       IN  \/ Present(args) # Params(tool_call.name)
           \/ /\ tool_call.name = "book_ticket"
              /\ \E k \in BookParams : args[k] \in {JStr(""), JNull}
           \/ /\ tool_call.name \in {"cancel_ticket", "get_ticket_info"}
              /\ ~ Found(db, args["ticket_id"])
           \/ /\ tool_call.name = "lookup_policy"
              /\ count = 0

\* C6: every tool call of a turn that fails in an expected way yields a
\* result with status error or info, which becomes a tool message; no
\* exception leaves _execute_tool_call or process_message.
C6_ExpectedFailureIsResult ==
    (/\ last_call # NoCall
     /\ ExpectedFailure(last_call, db_before, collection_count))
    => (/\ ~ last_out.raised
        /\ ret.kind # "raised"
        /\ last_out.result.status \in {"error", "info"}
        /\ pc = "tools" =>
             tool_outputs[idx] = ToolMsg(last_call, last_out.result))

\* h2 is h1 with entries appended, or h1 itself
Extends(h2, h1) == Len(h2) >= Len(h1) /\ SubSeq(h2, 1, Len(h1)) = h1

\* the step is the service-failure or the degenerate-response path of the
\* running turn
RollbackStep ==
    /\ pc = "llm"
    /\ pc' = "idle"
    /\ n_service' = n_service + 1
    /\ \/ response'.kind = "error"
       \/ /\ response'.kind = "message"
          /\ response'.content = ""
          /\ response'.tool_calls = <<>>

\* C11: the first entry of the history of a session is always the system
\* message set at session start, and every step leaves each history as it
\* was with entries appended, except that the service-failure and the
\* degenerate-response path, which end the turn, remove its last entry.
C11_SystemFirstAppendOnly ==
    [][\A s \in Sessions :
        /\ chat'[s] = "agent" =>
             (Len(history'[s]) >= 1 /\ history'[s][1] = SystemMsg)
        /\ \/ Extends(history'[s], history[s])
           \/ /\ history'[s] = Pop(history[s])
              /\ s = cur
              /\ RollbackStep]_vars

\* a turn that went through a tool round has ended by the removal of the
\* last entry
C11_Witness ==
    /\ TurnOver
    /\ response.kind = "error"
    /\ step >= 1
    /\ Len(history[cur]) = Len(hist0) + 2
    /\ history[cur][1] = SystemMsg

(***************************************************************************)
(* Properties of the ticket store over sequences of calls, checked under   *)
(* ToolSpec.                                                               *)
(***************************************************************************)
\* the step is a cancel_ticket call that names the ticket id
CancelOf(id) ==
    /\ last_call'.name = "cancel_ticket"
    /\ last_call'.arguments.kind = "obj"
    /\ last_call'.arguments.args["ticket_id"] = JStr(id)

\* C12: a ticket id once in the store stays in it; the status of a ticket
\* is CONFIRMED or CANCELLED and changes only from CONFIRMED to CANCELLED, by
\* cancel_ticket on that id; origin, destination, travel date, passenger,
\* national id and price never change, and no operation changes a ticket
\* other than the one it names.
C12_TicketsOnlyGetCancelled ==
    [][\A id \in DOMAIN TICKET_DB :
        /\ id \in DOMAIN TICKET_DB'
        /\ TICKET_DB'[id].status \in {"CONFIRMED", "CANCELLED"}
        /\ RequestFields(TICKET_DB'[id]) = RequestFields(TICKET_DB[id])
        /\ TICKET_DB'[id].price_irr = TICKET_DB[id].price_irr
        /\ TICKET_DB'[id] # TICKET_DB[id] =>
             /\ CancelOf(id)
             /\ TICKET_DB[id].status = "CONFIRMED"
             /\ TICKET_DB'[id].status = "CANCELLED"]_vars

\* the last call was a book_ticket that stored a ticket
Booked == LastCallOf("book_ticket") /\ last_out.result.message = "booked"

\* C15: the k-th successful booking of the process, k counted from 0, gets
\* departure slot k mod 3 of 08:00, 14:30, 20:00; calls that book nothing do
\* not advance the cycle.
C15_DepartureSlotByBookingCount ==
    Booked =>
        last_out.result.details.departure_time
            = travel_times[((bookings + Len(travel_times) - 1)
                                % Len(travel_times)) + 1]

\* C16: every successful book_ticket stores its ticket under an id that was
\* not in the store: the store grows by exactly 1 and every ticket that was
\* in it is as it was.
C16_BookingIdIsFresh ==
    Booked =>
        /\ last_out.result.details.ticket_id \notin DOMAIN db_before
        /\ Cardinality(DOMAIN TICKET_DB) = Cardinality(DOMAIN db_before) + 1
        /\ \A id \in DOMAIN db_before : TICKET_DB[id] = db_before[id]

\* C13: a tool call whose name is none of the five registered tools, or
\* whose argument payload does not parse, gets a result with status error
\* that names the unknown function or the decode failure; nothing is raised,
\* no tool runs and the ticket store is as it was.
C13_UnknownOrUnparsedIsError ==
    (/\ pc = "called"
     /\ \/ last_call.name \notin ToolNames
        \/ last_call.arguments.kind = "bad")
    => (/\ ~ last_out.raised
        /\ last_out.result.status = "error"
        /\ last_out.result.message =
             IF last_call.name \notin ToolNames
             THEN "unknown_function"
             ELSE "json_decode_error"
        /\ TICKET_DB = db_before)

\* a payload that does not parse is sent to a registered tool while the
\* store holds a ticket
C13_Witness ==
    /\ pc = "called"
    /\ last_call.name \in ToolNames
    /\ last_call.arguments.kind = "bad"
    /\ last_out.result.message = "json_decode_error"
    /\ TICKET_DB # <<>>

(***************************************************************************)
(* Properties of two chats in one process, checked under TwoSpec.          *)
(***************************************************************************)
\* the last tool call of the running turn named a ticket that was in the
\* store
TurnCallOn(name) ==
    /\ last_call.name = name
    /\ last_call.arguments.kind = "obj"
    /\ Present(LastArgs) = {"ticket_id"}
    /\ Found(db_before, LastArgs["ticket_id"])

\* get_ticket_info and cancel_ticket act on the ticket as the store holds
\* it, whichever session stored it
SeesStore ==
    /\ TurnCallOn("get_ticket_info") =>
         /\ last_out.result.status = "success"
         /\ last_out.result.details = db_before[LastArgs["ticket_id"].v]
    /\ TurnCallOn("cancel_ticket") =>
         LET id == LastArgs["ticket_id"].v
         IN  IF db_before[id].status = "CONFIRMED"
             THEN /\ last_out.result.status = "success"
                  /\ TICKET_DB[id].status = "CANCELLED"
             ELSE /\ last_out.result.status = "info"
                  /\ TICKET_DB = db_before

\* the session never requested a booking
NeverBooked(s) ==
    \A i \in 1..Len(history[s]) :
        \A j \in 1..Len(history[s][i].tool_calls) :
            history[s][i].tool_calls[j].name # "book_ticket"

\* C14: no step of a turn changes the history of a session other than the
\* one the turn runs in, whatever the outcome of the turn, and
\* get_ticket_info and cancel_ticket called through a session find a ticket
\* in the state in which any session left it.
C14_HistoriesApartStoreShared ==
    /\ [] SeesStore
    /\ [][(pc # "idle" \/ pc' # "idle") =>
            \A s \in Sessions \ {cur'} : history'[s] = history[s]]_vars

\* a session that never booked cancels the ticket another session booked,
\* and the history of that other session holds its own turn
C14_Witness ==
    /\ TurnCallOn("cancel_ticket")
    /\ NeverBooked(cur)
    /\ db_before[LastArgs["ticket_id"].v].status = "CONFIRMED"
    /\ last_out.result.status = "success"
    /\ \E s \in Sessions \ {cur} :
        /\ ~ NeverBooked(s)
        /\ Len(history[s]) >= 3

(***************************************************************************)
(* Properties of the course of a turn, checked under Spec.                 *)
(***************************************************************************)
\* the step is a Completion Service call of the running turn
ServiceCall == n_service' = n_service + 1

\* the step begins a new turn
TurnBegins == pc = "idle" /\ pc' = "llm" /\ n_service' = 0

\* C17: the first failed service call of a turn ends the turn: the step
\* that fails returns the apology and runs no tool, and until a new turn
\* begins no service call is made and no tool is executed.
C17_FailureEndsTurn ==
    [][/\ (ServiceCall /\ response'.kind = "error") =>
            /\ pc' = "idle"
            /\ ret' = [kind |-> "returned", text |-> ApologyText]
            /\ tools_vars' = tools_vars
            /\ executed' = executed
       /\ response.kind = "error" =>
            \/ TurnBegins
            \/ /\ ~ ServiceCall
               /\ tools_vars' = tools_vars
               /\ executed' = executed]_vars

\* a service call has failed after a round of the turn ran its tools
C17_Witness ==
    /\ TurnOver
    /\ response.kind = "error"
    /\ n_service >= 2
    /\ executed # <<>>
    /\ ret.text = ApologyText

\* C18: in every turn the Completion Service is called at most 5 times,
\* call k+1 is made only after calls 1..k each returned tool-call requests
\* without text, and the turn ends: with one returned string, unless a tool
\* call did not return.
C18_AtMostFiveCallsThenEnds ==
    /\ [][ServiceCall =>
            /\ n_service' <= MaxSteps
            /\ n_service >= 1 =>
                 /\ response.kind = "message"
                 /\ response.content = ""
                 /\ response.tool_calls # <<>>
                 /\ step = n_service
                 /\ Rounds(history[cur], Len(hist0) + 2) = n_service]_vars
    /\ [](ret.kind = "raised" => last_out.raised)
    /\ (pc # "idle") ~> TurnOver

\* the fifth service call of a turn has been made
C18_Witness ==
    /\ n_service = MaxSteps
    /\ step = MaxSteps - 1
    /\ pc = "tools"

(***************************************************************************)
(* Properties of start-up, checked under Spec.                             *)
(***************************************************************************)
\* C19: with the policy file missing or empty the collection stays empty,
\* on_chat_start still creates the agent and shows the welcome, and every
\* lookup_policy call made while the collection is empty returns status
\* error without raising.
C19_NoPolicyFileLookupIsError ==
    /\ [](policy_file \in {"missing", "empty"} => collection_count = 0)
    /\ []((/\ last_call.name = "lookup_policy"
           /\ last_call.arguments.kind = "obj"
           /\ Present(LastArgs) = {"query"}
           /\ collection_count = 0)
          => (~ last_out.raised /\ last_out.result.status = "error"))
    /\ [][\A s \in Sessions :
            (configured /\ chat[s] = "closed" /\ chat'[s] # "closed") =>
                /\ chat'[s] = "agent"
                /\ shown'[s] = "welcome"
                /\ history'[s] = <<SystemMsg>>]_vars

\* a turn of a chat started without a policy file has called lookup_policy
C19_Witness ==
    /\ policy_file = "missing"
    /\ chat[cur] = "agent"
    /\ last_call.name = "lookup_policy"
    /\ Present(LastArgs) = {"query"}
    /\ last_out.result.status = "error"
    /\ pc = "tools"

\* C20: when the API key or the base URL is absent at chat start the error
\* is shown, no agent is created, every later message of the chat gets the
\* not-initialized reply, and no service call, tool call, ticket store
\* change or exception ever happens.
C20_NoConfigNoAgent ==
    /\ [](~ configured =>
            /\ \A s \in Sessions :
                /\ chat[s] # "agent"
                /\ history[s] = <<>>
                /\ chat[s] = "no_agent" =>
                     shown[s] \in {"config_error", "not_initialized"}
            /\ pc = "idle"
            /\ n_service = 0
            /\ last_call = NoCall
            /\ ret = NoRet
            /\ TICKET_DB = <<>>)
    /\ [](\A s \in Sessions : chat[s] = "no_agent" => ~ configured)
    /\ [][\A s \in Sessions :
            /\ (chat[s] = "closed" /\ chat'[s] = "no_agent") =>
                 shown'[s] = "config_error"
            /\ (chat[s] = "no_agent" /\ shown'[s] # shown[s]) =>
                 shown'[s] = "not_initialized"
            /\ chat[s] = "no_agent" => chat'[s] = "no_agent"]_vars

\* a message has been sent to a chat that was started without configuration
C20_Witness ==
    /\ ~ configured
    /\ chat["s1"] = "no_agent"
    /\ shown["s1"] = "not_initialized"

(***************************************************************************)
(* Properties of the stored conversation and of the Ticket store at the    *)
(* end of a turn, checked under Spec.                                      *)
(***************************************************************************)
\* the entry of h at index i, if it is an assistant tool-call record, is
\* followed by one tool message per call it requests, in request order and
\* with the calls' identifiers, and by no further tool message
PairedAt(h, i) ==
    (h[i].role = "assistant" /\ h[i].tool_calls # <<>>) =>
        LET calls == h[i].tool_calls
            n == Len(calls)
        IN  /\ i + n <= Len(h)
            /\ \A j \in 1..n :
                 /\ h[i + j].role = "tool"
                 /\ h[i + j].tool_call_id = calls[j].id
            /\ (i + n < Len(h) => h[i + n + 1].role # "tool")

\* C21: at the end of every turn, whatever its outcome, every assistant
\* tool-call record in the history is immediately followed by exactly one
\* tool message per call it requested, in request order and with matching
\* call identifiers.
C21_RecordsHaveTheirToolMessages ==
    TurnOver => \A i \in 1..Len(history[cur]) : PairedAt(history[cur], i)

\* the response of the last service call carries both text and tool calls
TextWithToolCalls(r) ==
    r.kind = "message" /\ r.content # "" /\ r.tool_calls # <<>>

\* C22: a response that carries both non-empty text and tool-call requests
\* is final text: the text is appended as the assistant message and
\* returned, none of the requested tools is executed, no tool-call record or
\* tool message enters the history, and the Ticket store is unchanged.
C22_TextWithToolCallsIsFinalText ==
    /\ [][(ServiceCall /\ TextWithToolCalls(response')) =>
            /\ history' = [history EXCEPT
                  ![cur] = Append(@, Msg("assistant", response'.content))]
            /\ pc' = "idle"
            /\ ret' = [kind |-> "returned", text |-> response'.content]
            /\ tools_vars' = tools_vars
            /\ executed' = executed]_vars
    /\ [][TextWithToolCalls(response) =>
            \/ TurnBegins
            \/ /\ history' = history
               /\ tools_vars' = tools_vars
               /\ executed' = executed]_vars

\* after a round that booked a ticket, a response with text also asks to
\* cancel that ticket: the turn is over and the ticket is still confirmed
C22_Witness ==
    /\ TurnOver
    /\ TextWithToolCalls(response)
    /\ n_service = 2
    /\ response.tool_calls[1].name = "cancel_ticket"
    /\ response.tool_calls[1].arguments.args = IdArgs(KishId)
    /\ KishId \in DOMAIN TICKET_DB
    /\ TICKET_DB[KishId].status = "CONFIRMED"
    /\ ret.text = response.content
    /\ history[cur][Len(history[cur])] = Msg("assistant", response.content)

\* the turn ended by the rollback of a failed service call or of a
\* degenerate response
RolledBack(r) ==
    \/ r.kind = "error"
    \/ r.kind = "message" /\ r.content = "" /\ r.tool_calls = <<>>

\* what a tool result did to the Ticket store: the ticket and the status it
\* gave it; the empty id if it did nothing
Effect(r) ==
    IF r.message = "booked"
    THEN [id |-> r.details.ticket_id, status |-> "CONFIRMED"]
    ELSE IF r.message = "cancelled"
    THEN [id |-> r.ticket_id, status |-> "CANCELLED"]
    ELSE [id |-> "", status |-> ""]

\* the results of the tool calls of a turn that was rolled back after one or
\* more rounds, in the order of the calls: those of the tool messages the
\* history holds past the entries the turn began with, then the result of
\* the last call, whose tool message the rollback removed
TurnResults ==
    LET h == history[cur]
        kept == SelectSeq(SubSeq(h, Len(hist0) + 1, Len(h)),
                          LAMBDA m : m.role = "tool")
    IN  [k \in 1..Len(kept) |-> kept[k].result] \o <<last_out.result>>

\* C23: rollback touches only the history: when a turn ends in a service
\* failure or a degenerate response after one or more tool-call rounds, the
\* step that rolls back leaves the Ticket store as it is, and after
\* process_message returns every ticket the tool calls of the turn booked or
\* cancelled is in the store with the status the last of them gave it.
C23_RollbackKeepsTicketStore ==
    /\ [][(ServiceCall /\ RolledBack(response') /\ step >= 1) =>
            /\ TICKET_DB' = TICKET_DB
            /\ history'[cur] = Pop(history[cur])
            /\ \A s \in Sessions \ {cur} : history'[s] = history[s]]_vars
    /\ [](( /\ TurnOver
            /\ ret.kind = "returned"
            /\ RolledBack(response)
            /\ step >= 1) =>
          LET E == TurnResults
          IN  \A k \in 1..Len(E) :
                (/\ Effect(E[k]).id # ""
                 /\ \A j \in (k + 1)..Len(E) :
                        Effect(E[j]).id # Effect(E[k]).id) =>
                    /\ Effect(E[k]).id \in DOMAIN TICKET_DB
                    /\ TICKET_DB[Effect(E[k]).id].status
                          = Effect(E[k]).status)

\* a turn booked a ticket in its first round and cancelled it in its second;
\* the third service call failed, and the ticket is in the store, cancelled
C23_Witness ==
    /\ TurnOver
    /\ response.kind = "error"
    /\ ret.text = ApologyText
    /\ step = 2
    /\ Len(TurnResults) = 3
    /\ Effect(TurnResults[1]) = [id |-> KishId, status |-> "CONFIRMED"]
    /\ Effect(TurnResults[2]) = [id |-> KishId, status |-> "CANCELLED"]
    /\ KishId \in DOMAIN TICKET_DB
    /\ TICKET_DB[KishId].status = "CANCELLED"

====
